---- MODULE Spec2Model ----
(***************************************************************************)
(* Model of imagr-ng (src/src/main.rs): a producer task that walks the     *)
(* paginated photo-post catalog and sends one DownloadablePhoto per photo  *)
(* on a bounded tokio mpsc channel, a consumer that races channel receive  *)
(* against completion of the downloads it has launched, and main, which    *)
(* awaits the consumer and then joins the producer.                        *)
(*                                                                         *)
(* One step of a task runs from the completion of one await to the next    *)
(* await (reqwest::get(..).json(), tx.send, rx.recv / tasks.next).         *)
(***************************************************************************)
EXTENDS Naturals, Sequences, FiniteSets

\* ---------------------------------------------------------------- bounds
MaxPages == 2        \* pages in a catalog
MaxPosts == 1        \* posts on one page
MaxPhotos == 2       \* photos of one post
MaxItems == 3        \* photos of a whole catalog
MaxCapacity == 2     \* largest channel capacity the model explores

\* mpsc::channel(64)
ChannelCapacity == 64

\* The channel of the model holds ChannelCapacity items, scaled down to
\* MaxCapacity so that a full channel is reachable with a small catalog.
Capacity == IF ChannelCapacity < MaxCapacity THEN ChannelCapacity ELSE MaxCapacity

\* Meta.status values the server may embed in a decodable page
Statuses == {200, 500}

VARIABLES
    catalog,      \* the remote blog: catalog[p][e] = number of photos of post e on page p
    main_pc,      \* "start" | "consumer" | "join" | "done"
    main_result,  \* "none" | "ok" | "err"
    prod_pc,      \* "idle" | "start" | "fetch" | "send" | "done"
    prod_result,  \* "none" | "ok" | "err"
    page,         \* page being fetched (prod_pc = "fetch") or expanded ("send")
    cursor,       \* photos of the current page already sent
    meta,         \* the page decoded last and its envelope.meta.status (<<0, 0>>: none yet)
    fetches,      \* number of page requests issued
    sent,         \* every photo accepted by the channel, in order
    tx_open,      \* the Sender is alive
    rx_open,      \* the Receiver is alive
    queue,        \* photos in the channel
    cons_pc,      \* "idle" | "mkdir" | "loop" | "drain" | "done"
    cons_result,  \* "none" | "ok" | "err"
    tasks,        \* FuturesUnordered: downloads launched and not resolved
    launched,     \* every photo a download was pushed for, in order
    succeeded,    \* downloads resolved Ok (file written)
    failed,       \* downloads resolved Err
    hung,         \* photos whose connection never answers: their download never resolves
    dir_exists    \* the download directory exists

vars == <<catalog, main_pc, main_result, prod_pc, prod_result, page, cursor,
          meta, fetches, sent, tx_open, rx_open, queue, cons_pc,
          cons_result, tasks, launched, succeeded, failed, hung, dir_exists>>

prodVars == <<prod_pc, prod_result, page, cursor, meta, fetches, sent, tx_open>>
consVars == <<cons_pc, cons_result, tasks, launched, succeeded, failed, rx_open>>
mainVars == <<main_pc, main_result>>

\* ---------------------------------------------------------------- helpers
Range(s) == {s[i] : i \in 1..Len(s)}

RECURSIVE SumSeq(_)
SumSeq(s) == IF s = <<>> THEN 0 ELSE Head(s) + SumSeq(Tail(s))

RECURSIVE Flatten(_)
Flatten(ss) == IF ss = <<>> THEN <<>> ELSE Head(ss) \o Flatten(Tail(ss))

\* Response.posts of one page: a Vec<Post>, each with a Vec of photos
PagesSet == UNION {[1..m -> 0..MaxPhotos] : m \in 0..MaxPosts}

PageCount(pg) == SumSeq(pg)

Catalogs ==
    {c \in UNION {[1..n -> PagesSet] : n \in 1..MaxPages} :
        SumSeq([p \in 1..Len(c) |-> PageCount(c[p])]) <= MaxItems}

\* ---------------------------------------------------------------- pure code
\* Meta::is_success
is_success(st) == st = 200

\* mutant: the photo index counted from one
Post_into_OneBased(p, e) == [i \in 1..catalog[p][e] |-> <<p, e, i>>]

\* impl Into<Vec<DownloadablePhoto>> for Post: one item per photo, by index
Post_into(p, e) == [i \in 1..catalog[p][e] |-> <<p, e, i - 1>>]

\* for post in envelope.response.posts { for photo in post.into() { .. } }
PagePhotos(p) == Flatten([e \in 1..Len(catalog[p]) |-> Post_into(p, e)])

\* mutant: a next link is followed even when the page carries none
links_is_some_Always(p) == TRUE

\* envelope.response.links is Some(..)
links_is_some(p) == p < Len(catalog)

\* mutant: the channel is closed only by the successful path
TxDroppedOnReturn_OnlyOk(result) == result = "ok"

\* tx is owned by the fetch_photo_posts future: dropped when it returns
TxDroppedOnReturn(result) == TRUE

\* mutant: one slot too many
CanSend_OneMore(q) == Len(q) <= Capacity

\* Sender::send on a bounded channel completes when a slot is free
CanSend(q) == Len(q) < Capacity

\* fetch_and_write_photo: File::create joined with reqwest::get, then the
\* body stream forwarded into the file
fetch_and_write_photo(createOk, getOk, streamOk) ==
    IF createOk /\ getOk /\ streamOk THEN "ok" ELSE "err"

\* mutant: create_dir instead of create_dir_all, an existing directory is an error
create_dir_all_FailsIfExists(exists, ioOk) == IF ~exists /\ ioOk THEN "ok" ELSE "err"

\* tokio::fs::create_dir_all: Ok when the directory is already there,
\* otherwise the outcome of creating it
create_dir_all(exists, ioOk) == IF exists \/ ioOk THEN "ok" ELSE "err"

\* every photo of the catalog, as the producer expands it
CatalogPhotos == UNION {Range(PagePhotos(p)) : p \in 1..Len(catalog)}

\* ---------------------------------------------------------------- init
\* the state when main starts, for any catalog and any state of the directory
InitProcess ==
    /\ catalog \in Catalogs
    /\ dir_exists \in BOOLEAN
    /\ main_pc = "start" /\ main_result = "none"
    /\ prod_pc = "idle" /\ prod_result = "none"
    /\ page = 0 /\ cursor = 0 /\ meta = <<0, 0>> /\ fetches = 0
    /\ sent = <<>> /\ tx_open = TRUE /\ rx_open = TRUE /\ queue = <<>>
    /\ cons_pc = "idle" /\ cons_result = "none"
    /\ tasks = {} /\ launched = <<>> /\ succeeded = {} /\ failed = {}

\* every connection answers
Init == InitProcess /\ hung = {}

\* the connection of one photo of the catalog never answers
HungInit == InitProcess /\ \E t \in CatalogPhotos : hung = {t}

Alive == main_pc # "done"

\* ---------------------------------------------------------------- producer
\* fetch_photo_posts returns: Ok(()) or the error of a `?`
fetch_photo_posts_return(result) ==
    /\ prod_pc' = "done"
    /\ prod_result' = result
    /\ tx_open' = IF TxDroppedOnReturn(result) THEN FALSE ELSE tx_open

\* The loop body from photo number c of page p up to the next await
fetch_photo_posts_loop(p, c) ==
    IF c < Len(PagePhotos(p))
    THEN /\ prod_pc' = "send" /\ page' = p /\ cursor' = c
         /\ UNCHANGED <<prod_result, tx_open, fetches>>
    ELSE IF links_is_some(p)
    THEN /\ prod_pc' = "fetch" /\ page' = p + 1 /\ cursor' = 0
         /\ fetches' = fetches + 1
         /\ UNCHANGED <<prod_result, tx_open>>
    ELSE /\ fetch_photo_posts_return("ok")
         /\ page' = p /\ cursor' = c
         /\ UNCHANGED fetches

\* first poll of the spawned task: the request for page 0 is issued
fetch_photo_posts_start ==
    /\ Alive /\ prod_pc = "start"
    /\ prod_pc' = "fetch" /\ page' = 1 /\ fetches' = fetches + 1
    /\ UNCHANGED <<prod_result, cursor, meta, sent, tx_open, queue, catalog, hung, dir_exists>>
    /\ UNCHANGED consVars /\ UNCHANGED mainVars

\* reqwest::get(url).await?.json::<ResponseEnvelope<Response>>().await?
fetch_photo_posts_get ==
    /\ Alive /\ prod_pc = "fetch"
    /\ \/ /\ fetch_photo_posts_return("err")
          /\ UNCHANGED <<page, cursor, meta, fetches>>
       \/ \E st \in Statuses :
            /\ meta' = <<page, st>>
            /\ fetch_photo_posts_loop(page, 0)
    /\ UNCHANGED <<sent, queue, catalog, hung, dir_exists>>
    /\ UNCHANGED consVars /\ UNCHANGED mainVars

\* mutant: the error of a send on the closed channel is ignored
fetch_photo_posts_send_IgnoresError ==
    /\ Alive /\ prod_pc = "send"
    /\ \/ /\ ~rx_open
          /\ fetch_photo_posts_loop(page, cursor + 1)
          /\ UNCHANGED <<sent, queue>>
       \/ /\ rx_open /\ CanSend(queue)
          /\ queue' = Append(queue, PagePhotos(page)[cursor + 1])
          /\ sent' = Append(sent, PagePhotos(page)[cursor + 1])
          /\ fetch_photo_posts_loop(page, cursor + 1)
    /\ UNCHANGED <<meta, catalog, hung, dir_exists>>
    /\ UNCHANGED consVars /\ UNCHANGED mainVars

\* tx.send(photo).await?
fetch_photo_posts_send ==
    /\ Alive /\ prod_pc = "send"
    /\ \/ /\ ~rx_open
          /\ fetch_photo_posts_return("err")
          /\ UNCHANGED <<page, cursor, fetches, sent, queue>>
       \/ /\ rx_open /\ CanSend(queue)
          /\ queue' = Append(queue, PagePhotos(page)[cursor + 1])
          /\ sent' = Append(sent, PagePhotos(page)[cursor + 1])
          /\ fetch_photo_posts_loop(page, cursor + 1)
    /\ UNCHANGED <<meta, catalog, hung, dir_exists>>
    /\ UNCHANGED consVars /\ UNCHANGED mainVars

\* ---------------------------------------------------------------- consumer
\* fetch_photos returns: rx and tasks are dropped with the future
fetch_photos_return(result) ==
    /\ cons_pc' = "done"
    /\ cons_result' = result
    /\ rx_open' = FALSE
    /\ tasks' = {}
    /\ queue' = <<>>

\* tokio::fs::create_dir_all(&directory).await?
fetch_photos_create_dir_all ==
    /\ Alive /\ cons_pc = "mkdir"
    /\ \E ioOk \in BOOLEAN :
         IF create_dir_all(dir_exists, ioOk) = "ok"
         THEN /\ cons_pc' = "loop"
              /\ dir_exists' = TRUE
              /\ UNCHANGED <<cons_result, rx_open, tasks, queue>>
         ELSE /\ fetch_photos_return("err")
              /\ UNCHANGED dir_exists
    /\ UNCHANGED <<launched, succeeded, failed, catalog, hung>>
    /\ UNCHANGED prodVars /\ UNCHANGED mainVars

\* mutant: no photo is received while Capacity downloads are in flight
fetch_photos_recv_some_Capped ==
    /\ Alive /\ cons_pc = "loop"
    /\ queue # <<>>
    /\ Cardinality(tasks) < Capacity
    /\ queue' = Tail(queue)
    /\ tasks' = tasks \cup {Head(queue)}
    /\ launched' = Append(launched, Head(queue))
    /\ UNCHANGED <<cons_pc, cons_result, rx_open, succeeded, failed, catalog, hung, dir_exists>>
    /\ UNCHANGED prodVars /\ UNCHANGED mainVars

\* mutant: the newest photo of the channel is received first
fetch_photos_recv_some_Lifo ==
    /\ Alive /\ cons_pc = "loop"
    /\ queue # <<>>
    /\ queue' = SubSeq(queue, 1, Len(queue) - 1)
    /\ tasks' = tasks \cup {queue[Len(queue)]}
    /\ launched' = Append(launched, queue[Len(queue)])
    /\ UNCHANGED <<cons_pc, cons_result, rx_open, succeeded, failed, catalog, hung, dir_exists>>
    /\ UNCHANGED prodVars /\ UNCHANGED mainVars

\* mutant: the received photo is dropped, no download is pushed
fetch_photos_recv_some_Loses ==
    /\ Alive /\ cons_pc = "loop"
    /\ queue # <<>>
    /\ queue' = Tail(queue)
    /\ UNCHANGED <<tasks, launched>>
    /\ UNCHANGED <<cons_pc, cons_result, rx_open, succeeded, failed, catalog, hung, dir_exists>>
    /\ UNCHANGED prodVars /\ UNCHANGED mainVars

\* select!: rx.recv() yields Some(photo); the download is pushed on tasks
fetch_photos_recv_some ==
    /\ Alive /\ cons_pc = "loop"
    /\ queue # <<>>
    /\ queue' = Tail(queue)
    /\ tasks' = tasks \cup {Head(queue)}
    /\ launched' = Append(launched, Head(queue))
    /\ UNCHANGED <<cons_pc, cons_result, rx_open, succeeded, failed, catalog, hung, dir_exists>>
    /\ UNCHANGED prodVars /\ UNCHANGED mainVars

\* tasks.try_collect().await?: runs the remaining downloads, stops at the
\* first Err
fetch_photos_try_collect ==
    /\ Alive /\ cons_pc = "drain"
    /\ tasks # {}
    /\ \E t \in tasks \ hung, c \in BOOLEAN, g \in BOOLEAN, s \in BOOLEAN :
         IF fetch_and_write_photo(c, g, s) = "ok"
         THEN /\ succeeded' = succeeded \cup {t}
              /\ UNCHANGED failed
              /\ IF tasks = {t}
                 THEN fetch_photos_return("ok")
                 ELSE /\ tasks' = tasks \ {t}
                      /\ UNCHANGED <<cons_pc, cons_result, rx_open, queue>>
         ELSE /\ failed' = failed \cup {t}
              /\ UNCHANGED succeeded
              /\ fetch_photos_return("err")
    /\ UNCHANGED <<launched, catalog, hung, dir_exists>>
    /\ UNCHANGED prodVars /\ UNCHANGED mainVars

\* mutant: None is yielded as soon as the sender is dropped, the photos still
\* buffered are lost
fetch_photos_recv_none_DropsBuffered ==
    /\ Alive /\ cons_pc = "loop"
    /\ ~tx_open
    /\ IF tasks = {}
       THEN fetch_photos_return("ok")
       ELSE /\ cons_pc' = "drain"
            /\ queue' = <<>>
            /\ UNCHANGED <<cons_result, rx_open, tasks>>
    /\ UNCHANGED <<launched, succeeded, failed, catalog, hung, dir_exists>>
    /\ UNCHANGED prodVars /\ UNCHANGED mainVars

\* mutant: None from rx.recv() does not break the loop
fetch_photos_recv_none_NoBreak ==
    /\ Alive /\ cons_pc = "loop"
    /\ queue = <<>> /\ ~tx_open
    /\ UNCHANGED vars

\* select!: rx.recv() yields None (channel closed and empty): break, then
\* try_collect, which is ready at once when tasks is empty
fetch_photos_recv_none ==
    /\ Alive /\ cons_pc = "loop"
    /\ queue = <<>> /\ ~tx_open
    /\ IF tasks = {}
       THEN fetch_photos_return("ok")
       ELSE /\ cons_pc' = "drain"
            /\ UNCHANGED <<cons_result, rx_open, tasks, queue>>
    /\ UNCHANGED <<launched, succeeded, failed, catalog, hung, dir_exists>>
    /\ UNCHANGED prodVars /\ UNCHANGED mainVars

\* mutant: a download that resolved Ok is left in the set
fetch_photos_tasks_next_some_KeepsTask ==
    /\ Alive /\ cons_pc = "loop"
    /\ \E t \in tasks \ hung, c \in BOOLEAN, g \in BOOLEAN, s \in BOOLEAN :
         IF fetch_and_write_photo(c, g, s) = "ok"
         THEN /\ succeeded' = succeeded \cup {t}
              /\ UNCHANGED <<tasks, failed, cons_pc, cons_result, rx_open, queue>>
         ELSE /\ failed' = failed \cup {t}
              /\ UNCHANGED succeeded
              /\ fetch_photos_return("err")
    /\ UNCHANGED <<launched, catalog, hung, dir_exists>>
    /\ UNCHANGED prodVars /\ UNCHANGED mainVars

\* select!: tasks.next() yields Some(result); result? returns on Err
fetch_photos_tasks_next_some ==
    /\ Alive /\ cons_pc = "loop"
    /\ \E t \in tasks \ hung, c \in BOOLEAN, g \in BOOLEAN, s \in BOOLEAN :
         IF fetch_and_write_photo(c, g, s) = "ok"
         THEN /\ succeeded' = succeeded \cup {t}
              /\ tasks' = tasks \ {t}
              /\ UNCHANGED <<failed, cons_pc, cons_result, rx_open, queue>>
         ELSE /\ failed' = failed \cup {t}
              /\ UNCHANGED succeeded
              /\ fetch_photos_return("err")
    /\ UNCHANGED <<launched, catalog, hung, dir_exists>>
    /\ UNCHANGED prodVars /\ UNCHANGED mainVars

\* select!: tasks.next() yields None at once when tasks is empty; the loop
\* goes round with nothing changed
fetch_photos_tasks_next_none ==
    /\ Alive /\ cons_pc = "loop"
    /\ tasks = {}
    /\ UNCHANGED vars

\* ---------------------------------------------------------------- main
\* env::var("IMAGR_TOKEN")?, mpsc::channel, tokio::spawn(fetch_photo_posts),
\* fetch_photos(..) is awaited
main_start ==
    /\ main_pc = "start"
    /\ \/ /\ main_pc' = "done" /\ main_result' = "err"
          /\ UNCHANGED <<prod_pc, cons_pc>>
       \/ /\ main_pc' = "consumer" /\ UNCHANGED main_result
          /\ prod_pc' = "start" /\ cons_pc' = "mkdir"
    /\ UNCHANGED <<prod_result, page, cursor, meta, fetches, sent, tx_open,
                   rx_open, queue, cons_result, tasks, launched, succeeded,
                   failed, catalog, hung, dir_exists>>

\* fetch_photos(rx, download_directory).await?
main_await_fetch_photos ==
    /\ main_pc = "consumer" /\ cons_pc = "done"
    /\ IF cons_result = "err"
       THEN main_pc' = "done" /\ main_result' = "err"
       ELSE main_pc' = "join" /\ UNCHANGED main_result
    /\ UNCHANGED <<queue, catalog, hung, dir_exists>>
    /\ UNCHANGED prodVars /\ UNCHANGED consVars

\* mutant: the producer's result is dropped after the join
main_join_IgnoresProducer ==
    /\ main_pc = "join" /\ prod_pc = "done"
    /\ main_pc' = "done"
    /\ main_result' = "ok"
    /\ UNCHANGED <<queue, catalog, hung, dir_exists>>
    /\ UNCHANGED prodVars /\ UNCHANGED consVars

\* join_fetch_posts.await??; Ok(())
main_join ==
    /\ main_pc = "join" /\ prod_pc = "done"
    /\ main_pc' = "done"
    /\ main_result' = prod_result
    /\ UNCHANGED <<queue, catalog, hung, dir_exists>>
    /\ UNCHANGED prodVars /\ UNCHANGED consVars

Next ==
    \/ main_start
    \/ main_await_fetch_photos
    \/ main_join
    \/ fetch_photo_posts_start
    \/ fetch_photo_posts_get
    \/ fetch_photo_posts_send
    \/ fetch_photos_create_dir_all
    \/ fetch_photos_recv_some
    \/ fetch_photos_recv_none
    \/ fetch_photos_tasks_next_some
    \/ fetch_photos_tasks_next_none
    \/ fetch_photos_try_collect

Spec == Init /\ [][Next]_vars

\* Scheduling: the runtime keeps polling a ready task (tokio::spawn, block_on),
\* select! picks a ready branch at random, and every download resolves.
fetch_photo_posts == fetch_photo_posts_start \/ fetch_photo_posts_get \/ fetch_photo_posts_send
fetch_photos == fetch_photos_create_dir_all \/ fetch_photos_recv_some \/ fetch_photos_recv_none \/ fetch_photos_tasks_next_some \/ fetch_photos_try_collect
main == main_start \/ main_await_fetch_photos \/ main_join

FairSpec ==
    /\ Init /\ [][Next]_vars
    /\ WF_vars(fetch_photo_posts) /\ WF_vars(fetch_photos) /\ WF_vars(main)

\* The same scheduling when one connection hangs
HungSpec ==
    /\ HungInit /\ [][Next]_vars
    /\ WF_vars(fetch_photo_posts) /\ WF_vars(fetch_photos) /\ WF_vars(main)

TypeOK ==
    /\ main_pc \in {"start", "consumer", "join", "done"}
    /\ prod_pc \in {"idle", "start", "fetch", "send", "done"}
    /\ cons_pc \in {"idle", "mkdir", "loop", "drain", "done"}
    /\ main_result \in {"none", "ok", "err"}
    /\ prod_result \in {"none", "ok", "err"}
    /\ cons_result \in {"none", "ok", "err"}
    /\ tasks \subseteq Range(launched)
    /\ meta[1] <= fetches

\* ---------------------------------------------------------------- properties
\* every photo of the catalog, as <<page, post, index>>
AllItems ==
    UNION {UNION {{<<p, e, i>> : i \in {n \in 0..MaxPhotos : n < catalog[p][e]}} :
                     e \in 1..Len(catalog[p])} : p \in 1..Len(catalog)}

ItemsOfPage(p) == {it \in AllItems : it[1] = p}

\* page order, then post order, then photo index order
Before(a, b) ==
    \/ a[1] < b[1]
    \/ a[1] = b[1] /\ a[2] < b[2]
    \/ a[1] = b[1] /\ a[2] = b[2] /\ a[3] < b[3]

InOrder(s) == \A i \in 1..Len(s), j \in 1..Len(s) : i < j => Before(s[i], s[j])

Resolved == succeeded \cup failed

\* C1: fetch_photos completes, with any outcome, only when the queue has been
\* closed and every download it launched has resolved.
C1_CompletesOnlyClosedAndResolved ==
    cons_pc = "done" => (~tx_open /\ Range(launched) \subseteq Resolved)

\* C2: a failed download does not cancel its siblings: a download in flight
\* stays in flight until it resolves on its own, in the loop and in the drain.
C2_FailureCancelsNoSibling ==
    [][\A t \in tasks : t \in tasks' \/ t \in succeeded' \/ t \in failed']_vars

\* C3: when exactly one of the N downloads fails the other N-1 succeed and main
\* reports failure; whenever a download has failed, main does not report success.
C3_OneFailureOthersWritten ==
    main_pc = "done" =>
        /\ (Range(launched) = AllItems /\ Cardinality(failed) = 1)
               => (succeeded = AllItems \ failed /\ main_result = "err")
        /\ failed # {} => main_result = "err"

C5_Backpressure ==
    /\ [](Len(sent) <= Len(launched) + Capacity /\ Len(queue) <= Capacity)
    /\ [][Len(queue) >= Capacity => sent' = sent]_vars

C5_Witness ==
    /\ Len(queue) = Capacity /\ prod_pc = "send" /\ rx_open
    /\ cons_pc = "loop"

\* C6: page k+1 is requested only after every photo of page k has been sent, no
\* page is requested after one without a next link, and an error-free producer
\* requests as many pages as the catalog has.
C6_PaginationOrder ==
    /\ fetches <= Len(catalog)
    /\ \A k \in 1..Len(catalog) : k < fetches => ItemsOfPage(k) \subseteq Range(sent)
    /\ prod_result = "ok" => fetches = Len(catalog)

C6_Witness ==
    /\ Len(catalog) = 2 /\ prod_result = "ok" /\ fetches = 2
    /\ ItemsOfPage(1) # {} /\ ItemsOfPage(2) # {}

\* C7: a page that decodes with a non-success meta status makes the producer
\* fail: nothing of that page is sent, no further page is requested, and the
\* producer returns an error.
C7_NonSuccessMetaFails ==
    \A k \in 1..Len(catalog) :
        (meta[1] = k /\ ~is_success(meta[2])) =>
            /\ prod_pc = "done" /\ prod_result = "err"
            /\ fetches = k
            /\ ItemsOfPage(k) \cap Range(sent) = {}

\* C8: after a producer failure the consumer does not take the path of a
\* normal end of stream (recv yielding None, then the drain).
C8_ProducerFailureDistinguishable ==
    (cons_pc = "drain" \/ cons_result = "ok") => prod_result = "ok"

\* C9: once the producer has failed, the consumer eventually returns and main
\* eventually ends with a failure.
C9_ProducerFailureTerminates ==
    (prod_result = "err") ~>
        (cons_pc = "done" /\ main_pc = "done" /\ main_result = "err")

C9_Witness ==
    /\ prod_result = "err" /\ cons_result = "ok" /\ succeeded # {}
    /\ main_pc = "done" /\ main_result = "err"

\* C10: main ends with success exactly when the producer and the consumer both
\* returned Ok.
C10_SuccessIffBothOk ==
    main_pc = "done" =>
        (main_result = "ok" <=> (prod_result = "ok" /\ cons_result = "ok"))

C10_Witness ==
    /\ main_pc = "done" /\ main_result = "err"
    /\ prod_result = "err" /\ cons_result = "ok" /\ launched = <<>>

\* C11: once the queue is closed and empty the consumer eventually returns.
C11_ReturnsAfterClosure ==
    (~tx_open /\ queue = <<>> /\ cons_pc \in {"loop", "drain"}) ~> (cons_pc = "done")

C11_Witness ==
    /\ cons_pc = "done" /\ cons_result = "ok" /\ ~tx_open
    /\ Len(launched) >= 2 /\ succeeded = Range(launched)

\* C12: every photo taken from the queue is in the in-flight set until its
\* download resolves.
C12_DequeuedStaysInFlight ==
    Range(launched) \subseteq (tasks \cup Resolved)

\* C13: between the first receive and the end of the drain the in-flight set
\* is never empty.
C13_EmptyOnlyAtTheEnds ==
    (launched # <<>> /\ cons_pc \in {"loop", "drain"}) => tasks # {}

\* C13 as amended: the in-flight set is empty before the first receive and
\* after the consumer has returned; in between it is empty exactly when every
\* download launched so far has resolved.
C13_EmptyWhenAllResolved ==
    /\ launched = <<>> => tasks = {}
    /\ cons_pc = "done" => tasks = {}
    /\ cons_pc \in {"loop", "drain"} =>
           (tasks = {} <=> Range(launched) \subseteq Resolved)

C13_Witness ==
    /\ cons_pc = "loop" /\ launched # <<>> /\ tasks = {}
    /\ tx_open /\ prod_pc = "send"

\* C14: every photo sent is dequeued once and gets exactly one download; in a
\* run where the producer and the consumer both return Ok nothing is lost.
C14_ConsumedExactlyOnce ==
    /\ \A i \in 1..Len(launched), j \in 1..Len(launched) :
           i # j => launched[i] # launched[j]
    /\ rx_open => launched \o queue = sent
    /\ tasks \cap Resolved = {}
    /\ (prod_result = "ok" /\ cons_result = "ok") =>
           (launched = sent /\ succeeded = Range(sent))

C14_Witness ==
    /\ prod_result = "ok" /\ cons_result = "ok"
    /\ Len(sent) >= 3 /\ launched = sent

\* identifiers a photo can have within the bounds
ItemIds == (1..MaxPages) \X (1..MaxPosts) \X (0..MaxPhotos - 1)

\* C15: a download that never resolves stalls only itself: every other
\* launched download resolves, every queued photo is still dequeued and
\* launched, and the consumer never completes.
C15_HungStallsOnlyItself ==
    /\ \A t \in ItemIds : (t \in tasks /\ t \notin hung) ~> (t \in Resolved)
    /\ \A t \in ItemIds :
           (t \in Range(queue) /\ cons_pc = "loop") ~> (t \in Range(launched))
    /\ [](hung \cap Range(launched) # {} => cons_pc # "done")

\* C16: the download directory is created before any photo is received:
\* nothing is dequeued or launched before create_dir_all has succeeded, it
\* succeeds when the directory already exists, and when it fails the consumer
\* returns an error having dequeued nothing.
C16_DirectoryBeforeItems ==
    /\ [](launched # <<>> => dir_exists)
    /\ [](cons_pc \in {"idle", "mkdir"} =>
             (launched = <<>> /\ tasks = {} /\ queue = sent))
    /\ []((cons_pc = "done" /\ ~dir_exists) =>
             (cons_result = "err" /\ launched = <<>>))
    /\ [][(cons_pc = "mkdir" /\ dir_exists) => cons_pc' # "done"]_vars

C16_Witness ==
    /\ cons_pc = "done" /\ cons_result = "err" /\ ~dir_exists
    /\ sent # <<>> /\ launched = <<>>

\* C17: the in-flight downloads are not capped by the channel capacity: a
\* queued photo can be received and launched however many downloads are in
\* flight, so more than Capacity of them can be in flight at once.
C17_ReceiveNeverWaitsForDownloads ==
    (cons_pc = "loop" /\ queue # <<>>) => ENABLED fetch_photos_recv_some

C17_Witness ==
    /\ Cardinality(tasks) > Capacity /\ cons_pc = "loop"

C19_SendFailsAfterConsumerFailure ==
    /\ (cons_result = "err" /\ prod_pc = "send") ~>
           (prod_pc = "done" /\ prod_result = "err")
    /\ [][(~rx_open /\ prod_pc = "send") => fetches' = fetches]_vars

\* C19 as amended: such a producer does not wait forever: its send fails and it
\* returns an error, or the process ends first; in either case it sends nothing
\* more and fetches no further page.
C19_SendFailsOrProcessEnds ==
    /\ (cons_result = "err" /\ prod_pc = "send") ~>
           ((prod_pc = "done" /\ prod_result = "err") \/ main_pc = "done")
    /\ [][(~rx_open /\ prod_pc = "send") =>
             /\ fetches' = fetches /\ sent' = sent
             /\ \/ prod_pc' = "send"
                \/ prod_pc' = "done" /\ prod_result' = "err"]_vars

C19_Witness ==
    /\ cons_result = "err" /\ prod_pc = "done" /\ prod_result = "err"
    /\ cursor >= 1 /\ fetches < Len(catalog)
    /\ main_pc # "done"

\* C20: photos are dequeued and launched in the order they were sent; the
\* order in which the downloads resolve is free.
C20_LaunchedInSendOrder ==
    /\ Len(launched) <= Len(sent)
    /\ \A i \in 1..Len(launched) : launched[i] = sent[i]
    /\ InOrder(launched)

C20_Witness ==
    \E i \in 1..Len(launched), j \in 1..Len(launched) :
        i < j /\ launched[i] \in tasks /\ launched[j] \in succeeded
====
